---- MODULE Spec2Model ----
(***************************************************************************)
(* A model of scripts/squash-message.ts: the command-line pipeline         *)
(*   parseArguments -> help check -> parsePositionals -> getInput ->       *)
(*   createPrompt -> dry-run check -> getApiKey -> requestLlm ->           *)
(*   writeStreamText -> exit                                               *)
(* and the pure functions it is built from.                                *)
(*                                                                         *)
(* Text is a sequence of Unicode code points; bytes are 0..255.  File      *)
(* paths, API keys and command-line tokens are strings.  A neverthrow      *)
(* Result is a record: Ok(v) or Err(message, cause).                       *)
(***************************************************************************)
EXTENDS Integers, Sequences, FiniteSets, TLC

\* ------------------------------------------------------------------------
\* Bounds of the model
\* ------------------------------------------------------------------------

\* longest command line (Deno.args) explored
MaxArgs == 3
\* most chunks the completion provider yields in one run
MaxChunks == 2
\* most pieces an input text is assembled from (createPrompt's inputs)
MaxPieces == 2
\* most places at which standard input's bytes are cut into chunks
MaxCuts == 2

\* ------------------------------------------------------------------------
\* JavaScript values
\* ------------------------------------------------------------------------

\* JavaScript's undefined, where a string may stand: a value no command-line
\* token, key or path is equal to.
Undefined == "<undefined>"

\* neverthrow's ok(value) and err(new Error(message, { cause }))
Ok(v) == [ok |-> TRUE, value |-> v]
Err(m, c) == [ok |-> FALSE, message |-> m, cause |-> c]
NoCause == "<no cause>"

\* truthiness of a string-or-undefined, as in `filePath ? ... : ...`
Truthy(s) == s # Undefined /\ s # ""

\* a ?? b
Nullish(a, b) == IF a # Undefined THEN a ELSE b

\* the sequences over S of length at most n
SeqsUpTo(S, n) == UNION {[1..k -> S] : k \in 0..n}

\* does the sequence part occur in whole at position i
OccursAt(whole, part, i) ==
    /\ i >= 1
    /\ i + Len(part) - 1 <= Len(whole)
    /\ \A j \in 1..Len(part) : whole[i + j - 1] = part[j]

\* the positions at which part occurs in whole (String.prototype.includes is
\* Occurrences # {})
Occurrences(whole, part) ==
    {i \in 1..(Len(whole) - Len(part) + 1) : OccursAt(whole, part, i)}

Includes(whole, part) == Occurrences(whole, part) # {}

\* ------------------------------------------------------------------------
\* parseArguments: node:util parseArgs with options help (boolean, -h),
\* api-key (string, -k), dry-run (boolean, -d), allowPositionals, strict
\* ------------------------------------------------------------------------

HelpTokens == {"--help", "-h"}
ApiKeyTokens == {"--api-key", "-k"}
DryRunTokens == {"--dry-run", "-d"}
\* an option the options object does not declare
UnknownTokens == {"--bogus"}
\* tokens that begin with "-" and are longer than one character
OptionLike == HelpTokens \cup ApiKeyTokens \cup DryRunTokens \cup UnknownTokens

\* the tokens a command line is drawn from: options, file paths, a key, ""
ArgTokens == {"--help", "--dry-run", "--api-key", "--bogus", "a.txt", "sk-cli", ""}

NoValues == [k \in {"help", "api-key", "dry-run"} |->
                IF k = "api-key" THEN Undefined ELSE FALSE]

\* parseArgs from token i on; threw is parseArgs raising a TypeError (an
\* unknown option, a string option with no value or with an option-like one)
RECURSIVE parseArgs(_, _, _, _)
parseArgs(args, i, values, positionals) ==
    IF i > Len(args)
    THEN [threw |-> FALSE, values |-> values, positionals |-> positionals]
    ELSE LET t == args[i] IN
         IF t \in HelpTokens
         THEN parseArgs(args, i + 1, [values EXCEPT !["help"] = TRUE], positionals)
         ELSE IF t \in DryRunTokens
         THEN parseArgs(args, i + 1, [values EXCEPT !["dry-run"] = TRUE], positionals)
         ELSE IF t \in ApiKeyTokens
         THEN IF i = Len(args) \/ args[i + 1] \in OptionLike
              THEN [threw |-> TRUE, values |-> values, positionals |-> positionals]
              ELSE parseArgs(args, i + 2,
                             [values EXCEPT !["api-key"] = args[i + 1]], positionals)
         ELSE IF t \in OptionLike
         THEN [threw |-> TRUE, values |-> values, positionals |-> positionals]
         ELSE parseArgs(args, i + 1, values, Append(positionals, t))

ParseErrorMsg == <<"Failed", "to", "parse", "arguments">>

\* Result.fromThrowable(parseArgs, e => new Error("Failed to parse arguments"))
parseArguments(args) ==
    LET r == parseArgs(args, 1, NoValues, <<>>) IN
    IF r.threw
    THEN Err(ParseErrorMsg, "TypeError")
    ELSE Ok([values |-> r.values, positionals |-> r.positionals])

\* ------------------------------------------------------------------------
\* parsePositionals
\* ------------------------------------------------------------------------

TooManyMsg ==
    <<"Too", "many", "arguments.", "Expected", "0", "or", "1", "filepath", "argument.">>

\* positionals[0] of a JavaScript array: undefined when the array is empty
First(positionals) == IF Len(positionals) >= 1 THEN positionals[1] ELSE Undefined

\* parsePositionals refusing one positional too
parsePositionalsAtLeastOne(positionals) ==
    IF Len(positionals) >= 1 THEN Err(TooManyMsg, NoCause) ELSE Ok(First(positionals))

\* parsePositionals letting two positionals through
parsePositionalsOffByOne(positionals) ==
    IF Len(positionals) > 2 THEN Err(TooManyMsg, NoCause) ELSE Ok(First(positionals))

parsePositionals(positionals) ==
    IF Len(positionals) > 1 THEN Err(TooManyMsg, NoCause) ELSE Ok(First(positionals))

\* ------------------------------------------------------------------------
\* getApiKey
\* ------------------------------------------------------------------------

KeyNotFoundMsg == <<"API", "key", "not", "found">>

\* Deno.env.get: the value of a variable, undefined when it is not set
EnvGet(e, name) == e[name]

getApiKey(cliApiKey, e) ==
    LET apiKey == Nullish(cliApiKey,
                          Nullish(EnvGet(e, "SQUASH_MESSAGE_API_KEY"),
                                  EnvGet(e, "ANTHROPIC_API_KEY")))
    IN IF Truthy(apiKey) THEN Ok(apiKey) ELSE Err(KeyNotFoundMsg, NoCause)

\* ------------------------------------------------------------------------
\* Text: String.prototype.trim, TextEncoder, TextDecoder
\* ------------------------------------------------------------------------

\* WhiteSpace and LineTerminator code points of ECMAScript
WhiteSpace ==
    {9, 10, 11, 12, 13, 32, 160, 5760, 8232, 8233, 8239, 8287, 12288, 65279}
        \cup (8192..8202)

RECURSIVE TrimStart(_)
TrimStart(s) ==
    IF s # <<>> /\ Head(s) \in WhiteSpace THEN TrimStart(Tail(s)) ELSE s

RECURSIVE TrimEnd(_)
TrimEnd(s) ==
    IF s # <<>> /\ s[Len(s)] \in WhiteSpace
    THEN TrimEnd(SubSeq(s, 1, Len(s) - 1))
    ELSE s

Trim(s) == TrimEnd(TrimStart(s))

\* the UTF-8 bytes of one code point
Utf8Of(c) ==
    IF c < 128 THEN <<c>>
    ELSE IF c < 2048 THEN <<192 + (c \div 64), 128 + (c % 64)>>
    ELSE IF c < 65536
    THEN <<224 + (c \div 4096), 128 + ((c \div 64) % 64), 128 + (c % 64)>>
    ELSE <<240 + (c \div 262144), 128 + ((c \div 4096) % 64),
           128 + ((c \div 64) % 64), 128 + (c % 64)>>

\* an encoder that writes one byte per code point
Latin1Of(c) == <<c % 256>>

RECURSIVE encodeLatin1(_)
encodeLatin1(text) ==
    IF text = <<>> THEN <<>> ELSE Latin1Of(Head(text)) \o encodeLatin1(Tail(text))

\* new TextEncoder().encode(text)
RECURSIVE encode(_)
encode(text) ==
    IF text = <<>> THEN <<>> ELSE Utf8Of(Head(text)) \o encode(Tail(text))

\* one UTF-8 sequence starting at bytes[i]: its length n and code point c, or
\* bad when the bytes are malformed or end inside the sequence
Utf8At(bytes, i) ==
    LET b == bytes[i]
        need == IF b < 128 THEN 0
                ELSE IF b >= 194 /\ b <= 223 THEN 1
                ELSE IF b >= 224 /\ b <= 239 THEN 2
                ELSE IF b >= 240 /\ b <= 244 THEN 3
                ELSE 4
        lower == IF b = 224 THEN 160 ELSE IF b = 240 THEN 144 ELSE 128
        upper == IF b = 237 THEN 159 ELSE IF b = 244 THEN 143 ELSE 191
        lead == IF need = 0 THEN b
                ELSE IF need = 1 THEN b - 192
                ELSE IF need = 2 THEN b - 224
                ELSE b - 240
        Cont(k) == bytes[i + k] - 128
    IN
    IF need = 4 \/ i + need > Len(bytes)
    THEN [bad |-> TRUE, n |-> 1, c |-> 65533]
    ELSE IF need >= 1 /\ ~(bytes[i + 1] >= lower /\ bytes[i + 1] <= upper)
    THEN [bad |-> TRUE, n |-> 1, c |-> 65533]
    ELSE IF \E k \in 2..need : ~(bytes[i + k] >= 128 /\ bytes[i + k] <= 191)
    THEN [bad |-> TRUE, n |-> 1, c |-> 65533]
    ELSE [bad |-> FALSE, n |-> need + 1,
          c |-> IF need = 0 THEN lead
                ELSE IF need = 1 THEN lead * 64 + Cont(1)
                ELSE IF need = 2 THEN lead * 4096 + Cont(1) * 64 + Cont(2)
                ELSE lead * 262144 + Cont(1) * 4096 + Cont(2) * 64 + Cont(3)]

RECURSIVE decodeFrom(_, _, _)
decodeFrom(bytes, i, acc) ==
    IF i > Len(bytes)
    THEN [threw |-> FALSE, text |-> acc]
    ELSE LET u == Utf8At(bytes, i) IN
         IF u.bad
         THEN [threw |-> TRUE, text |-> acc]
         ELSE decodeFrom(bytes, i + u.n, Append(acc, u.c))

\* the byte order mark, which a TextDecoder drops at the start of its input
BOM == 65279

\* new TextDecoder(undefined, { fatal: true }).decode(chunk): one whole
\* decode per call (no { stream: true }), so a sequence cut by the end of
\* the chunk is malformed
decode(chunk) ==
    LET r == decodeFrom(chunk, 1, <<>>) IN
    IF ~r.threw /\ r.text # <<>> /\ Head(r.text) = BOM
    THEN [threw |-> FALSE, text |-> Tail(r.text)]
    ELSE r

StdinErrorMsg == <<"Failed", "to", "read", "from", "stdin">>
FileErrorMsg == <<"Failed", "to", "read", "file">>

\* the loop of readFromStdin over the chunks of Deno.stdin.readable
RECURSIVE readChunks(_, _, _)
readChunks(chunks, i, input) ==
    IF i > Len(chunks)
    THEN [threw |-> FALSE, text |-> input]
    ELSE LET d == decode(chunks[i]) IN
         IF d.threw
         THEN [threw |-> TRUE, text |-> input]
         ELSE readChunks(chunks, i + 1, input \o d.text)

\* readFromStdin on a stream of chunks that ends (broken = FALSE) or fails
\* after them (broken = TRUE)
readFromStdin(chunks, broken) ==
    LET r == readChunks(chunks, 1, <<>>) IN
    IF r.threw THEN Err(StdinErrorMsg, "TypeError")
    ELSE IF broken THEN Err(StdinErrorMsg, "read error")
    ELSE Ok(r.text)

\* Deno.readTextFile on a path that is a file with text (it resolves with the
\* text) or is none (it rejects)
NoFile == [found |-> FALSE]
FileOf(text) == [found |-> TRUE, text |-> text]

readFromFile(file) ==
    IF file.found THEN Ok(file.text) ELSE Err(FileErrorMsg, "NotFound")

\* ------------------------------------------------------------------------
\* createPrompt: the template literal around ${input}
\* ------------------------------------------------------------------------

PromptHead ==
    \* 188: `<commit_message>`?????????????????????????????????Git?squash???????????????????
    <<96, 60, 99, 111, 109, 109, 105, 116, 95, 109, 101, 115, 115, 97, 103, 101, 62, 96, 12479, 12464, 12391, 22258, 12414, 12428, 12383, 12467, 12511, 12483, 12488, 12513, 12483, 12475, 12540, 12472, 12398, 12522, 12473, 12488, 12395, 22522, 12389, 12356, 12390, 12289, 27425, 12398, 25351, 31034, 12395, 24467, 12356, 71, 105, 116, 12398, 115, 113, 117, 97, 115, 104, 12467, 12511, 12483, 12488, 12513, 12483, 12475, 12540, 12472, 12434, 29983, 25104, 12375, 12390, 12367, 12384, 12373, 12356, 12290, 10>> \o
    \* 189: 
    <<10>> \o
    \* 190: 1. Subject?50?????????????????
    <<49, 46, 32, 83, 117, 98, 106, 101, 99, 116, 12399, 53, 48, 25991, 23383, 20197, 19979, 12391, 22793, 26356, 20869, 23481, 12434, 35201, 32004, 12377, 12427, 12371, 12392, 12290, 10>> \o
    \* 191: 2. Subject???????????????: fix, feat, docs???????????
    <<50, 46, 32, 83, 117, 98, 106, 101, 99, 116, 12395, 12399, 12467, 12511, 12483, 12488, 12513, 12483, 12475, 12540, 12472, 12398, 22411, 65288, 20363, 58, 32, 102, 105, 120, 44, 32, 102, 101, 97, 116, 44, 32, 100, 111, 99, 115, 12394, 12393, 65289, 12434, 21547, 12417, 12394, 12356, 12371, 12392, 12290, 10>> \o
    \* 192: 3. Body??????????????1????72??????????
    <<51, 46, 32, 66, 111, 100, 121, 12395, 12399, 22793, 26356, 20869, 23481, 12398, 35443, 32048, 12434, 35352, 36848, 12375, 12289, 49, 34892, 12354, 12383, 12426, 55, 50, 25991, 23383, 20197, 19979, 12395, 12377, 12427, 12371, 12392, 12290, 10>> \o
    \* 193: 4. Body?????????????????????????????????????`*`?????????????????????????`*`??????????????????
    <<52, 46, 32, 66, 111, 100, 121, 12395, 12399, 12289, 25351, 23450, 12373, 12428, 12383, 12467, 12511, 12483, 12488, 12513, 12483, 12475, 12540, 12472, 12398, 23436, 20840, 12394, 12522, 12473, 12488, 12434, 21547, 12417, 12427, 12371, 12392, 12290, 21508, 34892, 12398, 20808, 38957, 12395, 96, 42, 96, 12434, 20184, 12369, 12427, 24418, 24335, 12391, 21015, 25369, 12377, 12427, 12290, 12383, 12384, 12375, 12289, 20837, 21147, 20869, 12391, 26082, 12395, 34892, 38957, 12395, 96, 42, 96, 12364, 20184, 12356, 12390, 12356, 12427, 34892, 12399, 12381, 12398, 12414, 12414, 12395, 12377, 12427, 12371, 12392, 12290, 10>> \o
    \* 194: 5. ??????????: `#`??????????????????????????????
    <<53, 46, 32, 20837, 21147, 12395, 12467, 12513, 12531, 12488, 34892, 65288, 20363, 58, 32, 96, 35, 96, 12391, 22987, 12414, 12427, 34892, 65289, 12364, 21547, 12414, 12428, 12390, 12356, 12427, 22580, 21512, 12289, 12381, 12428, 12434, 12381, 12398, 12414, 12414, 20445, 25345, 12377, 12427, 12371, 12392, 12290, 10>> \o
    \* 195: 6. squash????????????????????`#`???????
    <<54, 46, 32, 115, 113, 117, 97, 115, 104, 12513, 12483, 12475, 12540, 12472, 20197, 22806, 12398, 20986, 21147, 12395, 12399, 12289, 24517, 12378, 34892, 12398, 20808, 38957, 12395, 96, 35, 96, 12434, 20184, 12369, 12427, 12371, 12392, 12290, 10>> \o
    \* 196: 
    <<10>> \o
    \* 197: ?????`<example>`?????????
    <<20363, 12434, 20197, 19979, 12398, 96, 60, 101, 120, 97, 109, 112, 108, 101, 62, 96, 12479, 12464, 20869, 12391, 31034, 12375, 12414, 12377, 12290, 10>> \o
    \* 198: 
    <<10>> \o
    \* 199: <example>
    <<60, 101, 120, 97, 109, 112, 108, 101, 62, 10>> \o
    \* 200:   ?1:
    <<32, 32, 20363, 49, 58, 10>> \o
    \* 201: 
    <<10>> \o
    \* 202:   <example_1>
    <<32, 32, 60, 101, 120, 97, 109, 112, 108, 101, 95, 49, 62, 10>> \o
    \* 203:     <example_commit_message>
    <<32, 32, 32, 32, 60, 101, 120, 97, 109, 112, 108, 101, 95, 99, 111, 109, 109, 105, 116, 95, 109, 101, 115, 115, 97, 103, 101, 62, 10>> \o
    \* 204:       perf: Optimize image loading on the homepage
    <<32, 32, 32, 32, 32, 32, 112, 101, 114, 102, 58, 32, 79, 112, 116, 105, 109, 105, 122, 101, 32, 105, 109, 97, 103, 101, 32, 108, 111, 97, 100, 105, 110, 103, 32, 111, 110, 32, 116, 104, 101, 32, 104, 111, 109, 101, 112, 97, 103, 101, 10>> \o
    \* 205: 
    <<10>> \o
    \* 206:       feat: Implement lazy loading for product images
    <<32, 32, 32, 32, 32, 32, 102, 101, 97, 116, 58, 32, 73, 109, 112, 108, 101, 109, 101, 110, 116, 32, 108, 97, 122, 121, 32, 108, 111, 97, 100, 105, 110, 103, 32, 102, 111, 114, 32, 112, 114, 111, 100, 117, 99, 116, 32, 105, 109, 97, 103, 101, 115, 10>> \o
    \* 207: 
    <<10>> \o
    \* 208:       fix: Fix incorrect image alt text for accessibility
    <<32, 32, 32, 32, 32, 32, 102, 105, 120, 58, 32, 70, 105, 120, 32, 105, 110, 99, 111, 114, 114, 101, 99, 116, 32, 105, 109, 97, 103, 101, 32, 97, 108, 116, 32, 116, 101, 120, 116, 32, 102, 111, 114, 32, 97, 99, 99, 101, 115, 115, 105, 98, 105, 108, 105, 116, 121, 10>> \o
    \* 209: 
    <<10>> \o
    \* 210:       docs: Add lazy loading details to CONTRIBUTING.md
    <<32, 32, 32, 32, 32, 32, 100, 111, 99, 115, 58, 32, 65, 100, 100, 32, 108, 97, 122, 121, 32, 108, 111, 97, 100, 105, 110, 103, 32, 100, 101, 116, 97, 105, 108, 115, 32, 116, 111, 32, 67, 79, 78, 84, 82, 73, 66, 85, 84, 73, 78, 71, 46, 109, 100, 10>> \o
    \* 211: 
    <<10>> \o
    \* 212:       # Keep this as a comment
    <<32, 32, 32, 32, 32, 32, 35, 32, 75, 101, 101, 112, 32, 116, 104, 105, 115, 32, 97, 115, 32, 97, 32, 99, 111, 109, 109, 101, 110, 116, 10>> \o
    \* 213:     </example_commit_message>
    <<32, 32, 32, 32, 60, 47, 101, 120, 97, 109, 112, 108, 101, 95, 99, 111, 109, 109, 105, 116, 95, 109, 101, 115, 115, 97, 103, 101, 62, 10>> \o
    \* 214: 
    <<10>> \o
    \* 215:     <example_expected_output>
    <<32, 32, 32, 32, 60, 101, 120, 97, 109, 112, 108, 101, 95, 101, 120, 112, 101, 99, 116, 101, 100, 95, 111, 117, 116, 112, 117, 116, 62, 10>> \o
    \* 216:       # Squash message
    <<32, 32, 32, 32, 32, 32, 35, 32, 83, 113, 117, 97, 115, 104, 32, 109, 101, 115, 115, 97, 103, 101, 10>> \o
    \* 217:       Improve image performance and accessibility
    <<32, 32, 32, 32, 32, 32, 73, 109, 112, 114, 111, 118, 101, 32, 105, 109, 97, 103, 101, 32, 112, 101, 114, 102, 111, 114, 109, 97, 110, 99, 101, 32, 97, 110, 100, 32, 97, 99, 99, 101, 115, 115, 105, 98, 105, 108, 105, 116, 121, 10>> \o
    \* 218: 
    <<10>> \o
    \* 219:       * perf: Optimize image loading on the homepage
    <<32, 32, 32, 32, 32, 32, 42, 32, 112, 101, 114, 102, 58, 32, 79, 112, 116, 105, 109, 105, 122, 101, 32, 105, 109, 97, 103, 101, 32, 108, 111, 97, 100, 105, 110, 103, 32, 111, 110, 32, 116, 104, 101, 32, 104, 111, 109, 101, 112, 97, 103, 101, 10>> \o
    \* 220: 
    <<10>> \o
    \* 221:       * feat: Implement lazy loading for product images
    <<32, 32, 32, 32, 32, 32, 42, 32, 102, 101, 97, 116, 58, 32, 73, 109, 112, 108, 101, 109, 101, 110, 116, 32, 108, 97, 122, 121, 32, 108, 111, 97, 100, 105, 110, 103, 32, 102, 111, 114, 32, 112, 114, 111, 100, 117, 99, 116, 32, 105, 109, 97, 103, 101, 115, 10>> \o
    \* 222: 
    <<10>> \o
    \* 223:       * fix: Fix incorrect image alt text for accessibility
    <<32, 32, 32, 32, 32, 32, 42, 32, 102, 105, 120, 58, 32, 70, 105, 120, 32, 105, 110, 99, 111, 114, 114, 101, 99, 116, 32, 105, 109, 97, 103, 101, 32, 97, 108, 116, 32, 116, 101, 120, 116, 32, 102, 111, 114, 32, 97, 99, 99, 101, 115, 115, 105, 98, 105, 108, 105, 116, 121, 10>> \o
    \* 224: 
    <<10>> \o
    \* 225:       * docs: Add lazy loading details to CONTRIBUTING.md
    <<32, 32, 32, 32, 32, 32, 42, 32, 100, 111, 99, 115, 58, 32, 65, 100, 100, 32, 108, 97, 122, 121, 32, 108, 111, 97, 100, 105, 110, 103, 32, 100, 101, 116, 97, 105, 108, 115, 32, 116, 111, 32, 67, 79, 78, 84, 82, 73, 66, 85, 84, 73, 78, 71, 46, 109, 100, 10>> \o
    \* 226: 
    <<10>> \o
    \* 227:       # Keep this as a comment
    <<32, 32, 32, 32, 32, 32, 35, 32, 75, 101, 101, 112, 32, 116, 104, 105, 115, 32, 97, 115, 32, 97, 32, 99, 111, 109, 109, 101, 110, 116, 10>> \o
    \* 228:     </example_expected_output>
    <<32, 32, 32, 32, 60, 47, 101, 120, 97, 109, 112, 108, 101, 95, 101, 120, 112, 101, 99, 116, 101, 100, 95, 111, 117, 116, 112, 117, 116, 62, 10>> \o
    \* 229:   </example_1>
    <<32, 32, 60, 47, 101, 120, 97, 109, 112, 108, 101, 95, 49, 62, 10>> \o
    \* 230: 
    <<10>> \o
    \* 231:   ?2:
    <<32, 32, 20363, 50, 58, 10>> \o
    \* 232: 
    <<10>> \o
    \* 233:   <example_2>
    <<32, 32, 60, 101, 120, 97, 109, 112, 108, 101, 95, 50, 62, 10>> \o
    \* 234:     <example_commit_message>
    <<32, 32, 32, 32, 60, 101, 120, 97, 109, 112, 108, 101, 95, 99, 111, 109, 109, 105, 116, 95, 109, 101, 115, 115, 97, 103, 101, 62, 10>> \o
    \* 235:       # This is a combination of 4 commits.
    <<32, 32, 32, 32, 32, 32, 35, 32, 84, 104, 105, 115, 32, 105, 115, 32, 97, 32, 99, 111, 109, 98, 105, 110, 97, 116, 105, 111, 110, 32, 111, 102, 32, 52, 32, 99, 111, 109, 109, 105, 116, 115, 46, 10>> \o
    \* 236:       # This is the 1st commit message:
    <<32, 32, 32, 32, 32, 32, 35, 32, 84, 104, 105, 115, 32, 105, 115, 32, 116, 104, 101, 32, 49, 115, 116, 32, 99, 111, 109, 109, 105, 116, 32, 109, 101, 115, 115, 97, 103, 101, 58, 10>> \o
    \* 237: 
    <<10>> \o
    \* 238:       fix: Fix form validation errors
    <<32, 32, 32, 32, 32, 32, 102, 105, 120, 58, 32, 70, 105, 120, 32, 102, 111, 114, 109, 32, 118, 97, 108, 105, 100, 97, 116, 105, 111, 110, 32, 101, 114, 114, 111, 114, 115, 10>> \o
    \* 239: 
    <<10>> \o
    \* 240:       # This is the commit message #2:
    <<32, 32, 32, 32, 32, 32, 35, 32, 84, 104, 105, 115, 32, 105, 115, 32, 116, 104, 101, 32, 99, 111, 109, 109, 105, 116, 32, 109, 101, 115, 115, 97, 103, 101, 32, 35, 50, 58, 10>> \o
    \* 241: 
    <<10>> \o
    \* 242:       fix: Add required check for username field
    <<32, 32, 32, 32, 32, 32, 102, 105, 120, 58, 32, 65, 100, 100, 32, 114, 101, 113, 117, 105, 114, 101, 100, 32, 99, 104, 101, 99, 107, 32, 102, 111, 114, 32, 117, 115, 101, 114, 110, 97, 109, 101, 32, 102, 105, 101, 108, 100, 10>> \o
    \* 243: 
    <<10>> \o
    \* 244:       # This is the commit message #3:
    <<32, 32, 32, 32, 32, 32, 35, 32, 84, 104, 105, 115, 32, 105, 115, 32, 116, 104, 101, 32, 99, 111, 109, 109, 105, 116, 32, 109, 101, 115, 115, 97, 103, 101, 32, 35, 51, 58, 10>> \o
    \* 245: 
    <<10>> \o
    \* 246:       * feat: Add sort option to search functionality
    <<32, 32, 32, 32, 32, 32, 42, 32, 102, 101, 97, 116, 58, 32, 65, 100, 100, 32, 115, 111, 114, 116, 32, 111, 112, 116, 105, 111, 110, 32, 116, 111, 32, 115, 101, 97, 114, 99, 104, 32, 102, 117, 110, 99, 116, 105, 111, 110, 97, 108, 105, 116, 121, 10>> \o
    \* 247: 
    <<10>> \o
    \* 248:       # This is the commit message #4:
    <<32, 32, 32, 32, 32, 32, 35, 32, 84, 104, 105, 115, 32, 105, 115, 32, 116, 104, 101, 32, 99, 111, 109, 109, 105, 116, 32, 109, 101, 115, 115, 97, 103, 101, 32, 35, 52, 58, 10>> \o
    \* 249: 
    <<10>> \o
    \* 250:       docs: Update README with new search functionality
    <<32, 32, 32, 32, 32, 32, 100, 111, 99, 115, 58, 32, 85, 112, 100, 97, 116, 101, 32, 82, 69, 65, 68, 77, 69, 32, 119, 105, 116, 104, 32, 110, 101, 119, 32, 115, 101, 97, 114, 99, 104, 32, 102, 117, 110, 99, 116, 105, 111, 110, 97, 108, 105, 116, 121, 10>> \o
    \* 251: 
    <<10>> \o
    \* 252:       # refactor: Code cleanup
    <<32, 32, 32, 32, 32, 32, 35, 32, 114, 101, 102, 97, 99, 116, 111, 114, 58, 32, 67, 111, 100, 101, 32, 99, 108, 101, 97, 110, 117, 112, 10>> \o
    \* 253:     </example_commit_message>
    <<32, 32, 32, 32, 60, 47, 101, 120, 97, 109, 112, 108, 101, 95, 99, 111, 109, 109, 105, 116, 95, 109, 101, 115, 115, 97, 103, 101, 62, 10>> \o
    \* 254: 
    <<10>> \o
    \* 255:     <example_expected_output>
    <<32, 32, 32, 32, 60, 101, 120, 97, 109, 112, 108, 101, 95, 101, 120, 112, 101, 99, 116, 101, 100, 95, 111, 117, 116, 112, 117, 116, 62, 10>> \o
    \* 256:       Fix form validation and enhance search functionality
    <<32, 32, 32, 32, 32, 32, 70, 105, 120, 32, 102, 111, 114, 109, 32, 118, 97, 108, 105, 100, 97, 116, 105, 111, 110, 32, 97, 110, 100, 32, 101, 110, 104, 97, 110, 99, 101, 32, 115, 101, 97, 114, 99, 104, 32, 102, 117, 110, 99, 116, 105, 111, 110, 97, 108, 105, 116, 121, 10>> \o
    \* 257: 
    <<10>> \o
    \* 258:       # This is a combination of 4 commits.
    <<32, 32, 32, 32, 32, 32, 35, 32, 84, 104, 105, 115, 32, 105, 115, 32, 97, 32, 99, 111, 109, 98, 105, 110, 97, 116, 105, 111, 110, 32, 111, 102, 32, 52, 32, 99, 111, 109, 109, 105, 116, 115, 46, 10>> \o
    \* 259:       # This is the 1st commit message:
    <<32, 32, 32, 32, 32, 32, 35, 32, 84, 104, 105, 115, 32, 105, 115, 32, 116, 104, 101, 32, 49, 115, 116, 32, 99, 111, 109, 109, 105, 116, 32, 109, 101, 115, 115, 97, 103, 101, 58, 10>> \o
    \* 260: 
    <<10>> \o
    \* 261:       * fix: Fix form validation errors
    <<32, 32, 32, 32, 32, 32, 42, 32, 102, 105, 120, 58, 32, 70, 105, 120, 32, 102, 111, 114, 109, 32, 118, 97, 108, 105, 100, 97, 116, 105, 111, 110, 32, 101, 114, 114, 111, 114, 115, 10>> \o
    \* 262: 
    <<10>> \o
    \* 263:       # This is the commit message #2:
    <<32, 32, 32, 32, 32, 32, 35, 32, 84, 104, 105, 115, 32, 105, 115, 32, 116, 104, 101, 32, 99, 111, 109, 109, 105, 116, 32, 109, 101, 115, 115, 97, 103, 101, 32, 35, 50, 58, 10>> \o
    \* 264: 
    <<10>> \o
    \* 265:       * fix: Add required check for username field
    <<32, 32, 32, 32, 32, 32, 42, 32, 102, 105, 120, 58, 32, 65, 100, 100, 32, 114, 101, 113, 117, 105, 114, 101, 100, 32, 99, 104, 101, 99, 107, 32, 102, 111, 114, 32, 117, 115, 101, 114, 110, 97, 109, 101, 32, 102, 105, 101, 108, 100, 10>> \o
    \* 266: 
    <<10>> \o
    \* 267:       # This is the commit message #3:
    <<32, 32, 32, 32, 32, 32, 35, 32, 84, 104, 105, 115, 32, 105, 115, 32, 116, 104, 101, 32, 99, 111, 109, 109, 105, 116, 32, 109, 101, 115, 115, 97, 103, 101, 32, 35, 51, 58, 10>> \o
    \* 268: 
    <<10>> \o
    \* 269:       * feat: Add sort option to search functionality
    <<32, 32, 32, 32, 32, 32, 42, 32, 102, 101, 97, 116, 58, 32, 65, 100, 100, 32, 115, 111, 114, 116, 32, 111, 112, 116, 105, 111, 110, 32, 116, 111, 32, 115, 101, 97, 114, 99, 104, 32, 102, 117, 110, 99, 116, 105, 111, 110, 97, 108, 105, 116, 121, 10>> \o
    \* 270: 
    <<10>> \o
    \* 271:       # This is the commit message #4:
    <<32, 32, 32, 32, 32, 32, 35, 32, 84, 104, 105, 115, 32, 105, 115, 32, 116, 104, 101, 32, 99, 111, 109, 109, 105, 116, 32, 109, 101, 115, 115, 97, 103, 101, 32, 35, 52, 58, 10>> \o
    \* 272: 
    <<10>> \o
    \* 273:       * docs: Update README with new search functionality
    <<32, 32, 32, 32, 32, 32, 42, 32, 100, 111, 99, 115, 58, 32, 85, 112, 100, 97, 116, 101, 32, 82, 69, 65, 68, 77, 69, 32, 119, 105, 116, 104, 32, 110, 101, 119, 32, 115, 101, 97, 114, 99, 104, 32, 102, 117, 110, 99, 116, 105, 111, 110, 97, 108, 105, 116, 121, 10>> \o
    \* 274: 
    <<10>> \o
    \* 275:       # refactor: Code cleanup
    <<32, 32, 32, 32, 32, 32, 35, 32, 114, 101, 102, 97, 99, 116, 111, 114, 58, 32, 67, 111, 100, 101, 32, 99, 108, 101, 97, 110, 117, 112, 10>> \o
    \* 276:     </example_expected_output>
    <<32, 32, 32, 32, 60, 47, 101, 120, 97, 109, 112, 108, 101, 95, 101, 120, 112, 101, 99, 116, 101, 100, 95, 111, 117, 116, 112, 117, 116, 62, 10>> \o
    \* 277:   </example_2>
    <<32, 32, 60, 47, 101, 120, 97, 109, 112, 108, 101, 95, 50, 62, 10>> \o
    \* 278: </example>
    <<60, 47, 101, 120, 97, 109, 112, 108, 101, 62, 10>> \o
    \* 279: 
    <<10>> \o
    \* 280: <commit_message>
    <<60, 99, 111, 109, 109, 105, 116, 95, 109, 101, 115, 115, 97, 103, 101, 62, 10>>

PromptTail ==
    \* 281-282: newline, </commit_message>
    <<10, 60, 47, 99, 111, 109, 109, 105, 116, 95, 109, 101, 115, 115, 97, 103, 101, 62>>

\* the template cut off after ${input}
createPromptNoTail(input) == PromptHead \o input

createPrompt(input) == PromptHead \o input \o PromptTail


StreamErrorMsg == <<"Failed", "to", "write", "stream", "text">>

\* ------------------------------------------------------------------------
\* The inputs of a run
\* ------------------------------------------------------------------------

EnvNames == {"SQUASH_MESSAGE_API_KEY", "ANTHROPIC_API_KEY"}
\* the environments: each variable unset, set to "" or set to a key
Envs ==
    {[n \in EnvNames |-> IF n = "SQUASH_MESSAGE_API_KEY" THEN a ELSE b] :
        a \in {Undefined, "", "sk-squash"}, b \in {Undefined, "", "sk-anthropic"}}

\* "  feat: add X\n"
TextFeat == <<32, 32, 102, 101, 97, 116, 58, 32, 97, 100, 100, 32, 88, 10>>
\* "fix: bug\n\nmore detail"
TextFix ==
    <<102, 105, 120, 58, 32, 98, 117, 103, 10, 10, 109, 111, 114, 101, 32,
      100, 101, 116, 97, 105, 108>>

\* what the named file may be
Files == {NoFile, FileOf(TextFeat), FileOf(<<>>)}

\* what standard input may deliver: chunks of bytes, then end of stream or
\* a read error.  "fix: bug\n\nmore detail" in one chunk and in two; nothing;
\* a byte that is no UTF-8
StdinStreams ==
    {[chunks |-> <<TextFix>>, broken |-> FALSE],
     [chunks |-> <<SubSeq(TextFix, 1, 8), SubSeq(TextFix, 9, 21)>>, broken |-> FALSE],
     [chunks |-> <<>>, broken |-> FALSE],
     [chunks |-> <<<<255>>>>, broken |-> FALSE],
     [chunks |-> <<TextFix>>, broken |-> TRUE]}

\* standard input before anything is read from it
NoStdin == [chunks |-> <<>>, broken |-> FALSE]

\* the chunks a text stream may yield: "H", "e" with an acute accent, ""
Chunks == {<<72>>, <<233>>, <<>>}

\* what Deno.stdout.write may do with one call: throw at once, or return a
\* promise that is later fulfilled or later rejected
WriteFates == {"throw", "fulfil", "reject"}

\* a text stream and the sink it is written to: the chunks the stream
\* yields, whether it then ends or fails, and the fate of each write
StreamRun(chunks, fails, sink) == [chunks |-> chunks, fails |-> fails, sink |-> sink]

StreamRuns ==
    UNION {{StreamRun(c, f, s) : c \in [1..k -> Chunks], f \in BOOLEAN,
                                s \in [1..k -> WriteFates]} : k \in 0..MaxChunks}

\* the provider's answers explored when the whole program runs: no chunk,
\* "H", or "H" and then the accented "e"; the stream ending or failing; every
\* write fulfilled, or the first one thrown or rejected
ProviderRuns ==
    {r \in StreamRuns :
        /\ r.chunks \in {<<>>, <<<<72>>>>, <<<<72>>, <<233>>>>}
        /\ \A i \in 2..Len(r.sink) : r.sink[i] = "fulfil"}

NoStream == StreamRun(<<>>, FALSE, <<>>)

\* ------------------------------------------------------------------------
\* State
\* ------------------------------------------------------------------------

VARIABLES
    args,        \* Deno.args
    isTerminal,  \* Deno.stdin.isTerminal()
    env,         \* Deno.env
    pc,          \* where main (or the function under call) stands
    values,      \* parseArguments' values
    positionals, \* parseArguments' positionals
    filePath,    \* main's filePath
    input,       \* main's input
    prompt,      \* main's prompt
    apiKey,      \* main's apiKey
    result,      \* the Result the call settled with
    calls,       \* the steps started, in order
    failed,      \* the steps that returned an Err, in order
    reads,       \* the sources read, in order
    requests,    \* the requests made to the completion provider
    stdout,      \* what console.log printed: HELP_TEXT (kind "help") or a prompt
    stderr,      \* what console.error (or the runtime) printed
    pulled,      \* the chunks taken from textStream
    written,     \* the byte arrays handed to Deno.stdout.write
    writes,      \* the promise of each write: its fate and whether it settled
    exitCode,    \* the process's exit code and how it came about
    textStream,  \* the text stream being written and the sink's behaviour
    stdin        \* what Deno.stdin.readable delivers, once it is read

vars ==
    <<args, isTerminal, env, pc, values, positionals, filePath, input, prompt,
      apiKey, result, calls, failed, reads, requests, stdout, stderr, pulled,
      written, writes, exitCode, textStream, stdin>>

inputVars == <<args, isTerminal, env>>
streamVars == <<pulled, written, writes>>

NoResult == [ok |-> FALSE, message |-> <<>>, cause |-> "<pending>"]
Running == [code |-> -1, by |-> "running"]

InitLocals ==
    /\ values = NoValues
    /\ positionals = <<>>
    /\ filePath = Undefined
    /\ input = <<>>
    /\ prompt = <<>>
    /\ apiKey = Undefined
    /\ result = NoResult
    /\ calls = <<>>
    /\ failed = <<>>
    /\ reads = <<>>
    /\ requests = <<>>
    /\ stdout = <<>>
    /\ stderr = <<>>
    /\ pulled = <<>>
    /\ written = <<>>
    /\ writes = <<>>
    /\ exitCode = Running

\* the process is started with some command line, terminal and environment
Init ==
    /\ args \in SeqsUpTo(ArgTokens, MaxArgs)
    /\ isTerminal \in BOOLEAN
    /\ env \in Envs
    /\ pc = "parseArguments"
    /\ textStream = NoStream
    /\ stdin = NoStdin
    /\ InitLocals

\* step returns r, an Ok or an Err, which ends main
Return(step, r) ==
    /\ result' = r
    /\ failed' = IF r.ok THEN failed ELSE Append(failed, step)
    /\ pc' = "returned"

\* ------------------------------------------------------------------------
\* main
\* ------------------------------------------------------------------------

\* const { values, positionals } = yield* parseArguments(Deno.args)
ParseArguments ==
    /\ pc = "parseArguments"
    /\ calls' = Append(calls, "parseArguments")
    /\ LET r == parseArguments(args) IN
       IF r.ok
       THEN /\ values' = r.value.values
            /\ positionals' = r.value.positionals
            /\ pc' = "help"
            /\ UNCHANGED <<result, failed>>
       ELSE /\ Return("parseArguments", r)
            /\ UNCHANGED <<values, positionals>>
    /\ UNCHANGED <<inputVars, filePath, input, prompt, apiKey, reads, requests,
                   stdout, stderr, streamVars, exitCode, textStream, stdin>>

\* the help check of the revision that looked at values.help alone
HelpCheckFlagOnly ==
    /\ pc = "help"
    /\ IF values["help"]
       THEN /\ stdout' = Append(stdout, [kind |-> "help", text |-> <<>>])
            /\ Return("main", Ok(Undefined))
       ELSE /\ pc' = "parsePositionals"
            /\ UNCHANGED <<stdout, result, failed>>
    /\ UNCHANGED <<inputVars, values, positionals, filePath, input, prompt,
                   apiKey, calls, reads, requests, stderr, streamVars, exitCode, textStream, stdin>>

\* if (values.help || hasNoInputSource) return ok(console.log(HELP_TEXT))
HelpCheck ==
    /\ pc = "help"
    /\ LET hasNoInputSource == isTerminal /\ Len(positionals) = 0 IN
       IF values["help"] \/ hasNoInputSource
       THEN /\ stdout' = Append(stdout, [kind |-> "help", text |-> <<>>])
            /\ Return("main", Ok(Undefined))
       ELSE /\ pc' = "parsePositionals"
            /\ UNCHANGED <<stdout, result, failed>>
    /\ UNCHANGED <<inputVars, values, positionals, filePath, input, prompt,
                   apiKey, calls, reads, requests, stderr, streamVars, exitCode, textStream, stdin>>

\* parsePositionals' Err dropped instead of yielded: main goes on
ValidatePositionalsNoShortCircuit ==
    /\ pc = "parsePositionals"
    /\ calls' = Append(calls, "parsePositionals")
    /\ LET r == parsePositionals(positionals) IN
       /\ filePath' = First(positionals)
       /\ failed' = IF r.ok THEN failed ELSE Append(failed, "parsePositionals")
       /\ pc' = "getInput"
       /\ UNCHANGED result
    /\ UNCHANGED <<inputVars, values, positionals, input, prompt, apiKey, reads,
                   requests, stdout, stderr, streamVars, exitCode, textStream, stdin>>

\* const filePath = yield* parsePositionals(positionals)
ValidatePositionals ==
    /\ pc = "parsePositionals"
    /\ calls' = Append(calls, "parsePositionals")
    /\ LET r == parsePositionals(positionals) IN
       IF r.ok
       THEN /\ filePath' = r.value
            /\ pc' = "getInput"
            /\ UNCHANGED <<result, failed>>
       ELSE /\ Return("parsePositionals", r)
            /\ UNCHANGED filePath
    /\ UNCHANGED <<inputVars, values, positionals, input, prompt, apiKey, reads,
                   requests, stdout, stderr, streamVars, exitCode, textStream, stdin>>

\* const input = yield* await getInput(filePath), where
\* getInput is filePath ? readFromFile(filePath) : readFromStdin()
GetInput ==
    /\ pc = "getInput"
    /\ calls' = Append(calls, "getInput")
    /\ \E file \in Files, stream \in StdinStreams :
         LET r == IF Truthy(filePath)
                  THEN readFromFile(file)
                  ELSE readFromStdin(stream.chunks, stream.broken)
         IN
         /\ reads' = Append(reads, [source |-> IF Truthy(filePath) THEN "file" ELSE "stdin",
                                    path |-> IF Truthy(filePath) THEN filePath ELSE Undefined,
                                    ok |-> r.ok])
         /\ stdin' = IF Truthy(filePath) THEN stdin ELSE stream
         /\ IF r.ok
            THEN /\ input' = r.value
                 /\ pc' = "createPrompt"
                 /\ UNCHANGED <<result, failed>>
            ELSE /\ Return("getInput", r)
                 /\ UNCHANGED input
    /\ UNCHANGED <<inputVars, values, positionals, filePath, prompt, apiKey,
                   requests, stdout, stderr, streamVars, exitCode, textStream>>

\* const prompt = createPrompt(input.trim())
CreatePrompt ==
    /\ pc = "createPrompt"
    /\ calls' = Append(calls, "createPrompt")
    /\ prompt' = createPrompt(Trim(input))
    /\ pc' = "dryRun"
    /\ UNCHANGED <<inputVars, failed, values, positionals, filePath, input, apiKey,
                   result, reads, requests, stdout, stderr, streamVars, exitCode, textStream, stdin>>

\* the dry-run flag never seen set
DryRunCheckIgnored ==
    /\ pc = "dryRun"
    /\ pc' = "getApiKey"
    /\ UNCHANGED <<inputVars, values, positionals, filePath, input, prompt,
                   apiKey, result, failed, calls, reads, requests, stdout, stderr,
                   streamVars, exitCode, textStream, stdin>>

\* if (values["dry-run"]) return ok(console.log(prompt))
DryRunCheck ==
    /\ pc = "dryRun"
    /\ IF values["dry-run"]
       THEN /\ stdout' = Append(stdout, [kind |-> "prompt", text |-> prompt])
            /\ Return("main", Ok(Undefined))
       ELSE /\ pc' = "getApiKey"
            /\ UNCHANGED <<stdout, result, failed>>
    /\ UNCHANGED <<inputVars, values, positionals, filePath, input, prompt,
                   apiKey, calls, reads, requests, stderr, streamVars, exitCode, textStream, stdin>>

\* const apiKey = yield* getApiKey(values["api-key"])
GetApiKey ==
    /\ pc = "getApiKey"
    /\ calls' = Append(calls, "getApiKey")
    /\ LET r == getApiKey(values["api-key"], env) IN
       IF r.ok
       THEN /\ apiKey' = r.value
            /\ pc' = "requestLlm"
            /\ UNCHANGED <<result, failed>>
       ELSE /\ Return("getApiKey", r)
            /\ UNCHANGED apiKey
    /\ UNCHANGED <<inputVars, values, positionals, filePath, input, prompt,
                   reads, requests, stdout, stderr, streamVars, exitCode, textStream, stdin>>

\* const { textStream } = requestLlm(apiKey, prompt)
RequestLlm ==
    /\ pc = "requestLlm"
    /\ calls' = Append(calls, "requestLlm")
    /\ requests' = Append(requests, [apiKey |-> apiKey, prompt |-> prompt])
    /\ textStream' \in ProviderRuns
    /\ pc' = "writeStreamText"
    /\ UNCHANGED <<inputVars, failed, values, positionals, filePath, input, prompt,
                   apiKey, result, reads, stdout, stderr, streamVars, exitCode, stdin>>

\* ------------------------------------------------------------------------
\* writeStreamText
\* ------------------------------------------------------------------------

\* Deno.stdout.write(encoder.encode(text)): the sink is handed the bytes
IssueWrite(w, text) == Append(w, encode(text))

\* return ok(yield* await writeStreamText(textStream)): the call starts
WriteStreamText ==
    /\ pc = "writeStreamText"
    /\ calls' = Append(calls, "writeStreamText")
    /\ pc' = "forAwait"
    /\ UNCHANGED <<inputVars, failed, values, positionals, filePath, input, prompt,
                   apiKey, result, reads, requests, stdout, stderr, streamVars,
                   exitCode, textStream, stdin>>

\* for await (const text of textStream) { Deno.stdout.write(...) }: the
\* stream yields a chunk and the body runs.  A write that throws ends the
\* function with the error; the promise a write returns is not awaited, so
\* the loop goes on while the write is in flight.
PullChunk ==
    /\ pc = "forAwait"
    /\ Len(pulled) < Len(textStream.chunks)
    /\ LET text == textStream.chunks[Len(pulled) + 1]
           fate == textStream.sink[Len(pulled) + 1]
       IN
         /\ pulled' = Append(pulled, text)
         /\ written' = IssueWrite(written, text)
         /\ writes' = Append(writes, [fate |-> fate, settled |-> fate = "throw"])
         /\ IF fate = "throw"
            THEN Return("writeStreamText", Err(StreamErrorMsg, "write error"))
            ELSE UNCHANGED <<pc, result, failed>>
    /\ UNCHANGED <<inputVars, values, positionals, filePath, input, prompt,
                   apiKey, calls, reads, requests, stdout, stderr, exitCode, textStream, stdin>>

\* textStream is exhausted: the function returns
StreamEnd ==
    /\ pc = "forAwait"
    /\ Len(pulled) = Len(textStream.chunks)
    /\ ~textStream.fails
    /\ Return("writeStreamText", Ok(Undefined))
    /\ UNCHANGED <<inputVars, values, positionals, filePath, input, prompt,
                   apiKey, calls, reads, requests, stdout, stderr, streamVars,
                   exitCode, textStream, stdin>>

\* textStream itself fails (the provider's request or connection): the
\* for await throws
StreamThrows ==
    /\ pc = "forAwait"
    /\ Len(pulled) = Len(textStream.chunks)
    /\ textStream.fails
    /\ Return("writeStreamText", Err(StreamErrorMsg, "provider error"))
    /\ UNCHANGED <<inputVars, values, positionals, filePath, input, prompt,
                   apiKey, calls, reads, requests, stdout, stderr, streamVars,
                   exitCode, textStream, stdin>>

\* a write in flight settles: its promise is fulfilled or rejected.  No
\* handler is attached to it.
WriteSettles ==
    /\ pc # "exited"
    /\ \E i \in 1..Len(writes) :
         /\ ~writes[i].settled
         /\ writes' = [writes EXCEPT ![i].settled = TRUE]
    /\ UNCHANGED <<inputVars, failed, pc, values, positionals, filePath, input, prompt,
                   apiKey, result, calls, reads, requests, stdout, stderr,
                   pulled, written, exitCode, textStream, stdin>>

Rejected(w) == w.settled /\ w.fate = "reject"

UncaughtMsg == <<"error:", "Uncaught", "(in", "promise)">>

\* a rejected promise nobody handles: the runtime reports it and ends the
\* process with code 1, if the process has not exited before
UnhandledRejection ==
    /\ pc # "exited"
    /\ \E i \in 1..Len(writes) : Rejected(writes[i])
    /\ stderr' = Append(stderr, UncaughtMsg)
    /\ exitCode' = [code |-> 1, by |-> "uncaught"]
    /\ pc' = "exited"
    /\ UNCHANGED <<inputVars, failed, values, positionals, filePath, input, prompt,
                   apiKey, result, calls, reads, requests, stdout, streamVars, textStream, stdin>>

\* ------------------------------------------------------------------------
\* The entry point
\* ------------------------------------------------------------------------

\* await main().mapErr((e) => console.error("Error:", e.message))
\*     .match(() => Deno.exit(0), () => Deno.exit(1))
Entry ==
    /\ pc = "returned"
    /\ IF result.ok
       THEN /\ exitCode' = [code |-> 0, by |-> "match"]
            /\ UNCHANGED stderr
       ELSE /\ stderr' = Append(stderr, <<"Error:">> \o result.message)
            /\ exitCode' = [code |-> 1, by |-> "match"]
    /\ pc' = "exited"
    /\ UNCHANGED <<inputVars, failed, values, positionals, filePath, input, prompt,
                   apiKey, result, calls, reads, requests, stdout, streamVars, textStream, stdin>>

Next ==
    \/ ParseArguments
    \/ HelpCheck
    \/ ValidatePositionals
    \/ GetInput
    \/ CreatePrompt
    \/ DryRunCheck
    \/ GetApiKey
    \/ RequestLlm
    \/ WriteStreamText
    \/ PullChunk
    \/ StreamEnd
    \/ StreamThrows
    \/ WriteSettles
    \/ UnhandledRejection
    \/ Entry

Spec == Init /\ [][Next]_vars

\* ------------------------------------------------------------------------
\* writeStreamText called on its own, as its tests call it: on any text
\* stream and any sink
\* ------------------------------------------------------------------------

InitStream ==
    /\ args = <<>>
    /\ isTerminal = FALSE
    /\ env = [n \in EnvNames |-> Undefined]
    /\ pc = "writeStreamText"
    /\ textStream \in StreamRuns
    /\ stdin = NoStdin
    /\ InitLocals

NextStream ==
    \/ WriteStreamText
    \/ PullChunk
    \/ StreamEnd
    \/ StreamThrows
    \/ WriteSettles
    \/ UnhandledRejection

SpecStream == InitStream /\ [][NextStream]_vars

\* ------------------------------------------------------------------------
\* Properties of writeStreamText
\* ------------------------------------------------------------------------

\* the sink has failed the k-th write: the call threw, or the promise it
\* returned has been rejected
WriteFailed(k) ==
    /\ k <= Len(writes)
    /\ writes[k].settled
    /\ writes[k].fate \in {"throw", "reject"}

\* C1: writeStreamText fails fast.  When the sink fails the k-th write,
\* whether it throws or rejects, no chunk after the k-th is pulled from the
\* stream or written, and the function returns the Err "Failed to write
\* stream text" with the sink's failure as cause.
C1_FailFast ==
    \A k \in 1..Len(writes) :
        WriteFailed(k) =>
            /\ Len(pulled) <= k
            /\ Len(written) <= k
            /\ pc = "returned" =>
                  /\ ~result.ok
                  /\ result.message = StreamErrorMsg
                  /\ result.cause = "write error"

AllFulfil == \A i \in 1..Len(textStream.sink) : textStream.sink[i] = "fulfil"

\* C2: on a stream of n chunks that ends and a sink that never fails, the
\* writes issued so far are the encodings of the chunks pulled so far, one
\* write per chunk and in the order of arrival (a decoder gives the chunks
\* back), and when the function returns it has issued all n and returns Ok.
C2_WritesInOrder ==
    (AllFulfil /\ ~textStream.fails) =>
        /\ Len(written) = Len(pulled)
        /\ Len(writes) = Len(written)
        /\ \A i \in 1..Len(written) :
              /\ pulled[i] = textStream.chunks[i]
              /\ ~decode(written[i]).threw
              /\ decode(written[i]).text = textStream.chunks[i]
        /\ pc = "returned" =>
              /\ result.ok
              /\ Len(written) = Len(textStream.chunks)

\* two different chunks, the second of them not ASCII, were written and the
\* function returned Ok
C2_Witness ==
    /\ pc = "returned"
    /\ result.ok
    /\ AllFulfil
    /\ textStream.chunks = <<<<72>>, <<233>>>>
    /\ written = <<<<72>>, <<195, 169>>>>

\* ------------------------------------------------------------------------
\* createPrompt called on its own, as its tests call it: on any text
\* ------------------------------------------------------------------------

\* "<commit_message>"
OpenMarker == <<60, 99, 111, 109, 109, 105, 116, 95, 109, 101, 115, 115, 97, 103, 101, 62>>
\* "</commit_message>"
CloseMarker == <<60, 47, 99, 111, 109, 109, 105, 116, 95, 109, 101, 115, 115, 97, 103, 101, 62>>
NewLine == <<10>>

\* the pieces the texts are put together from: the two markers, a newline,
\* a space, "fix", "feat: add X", "</" and "*"
Pieces ==
    {OpenMarker, CloseMarker, NewLine, <<32>>, <<102, 105, 120>>,
     <<102, 101, 97, 116, 58, 32, 97, 100, 100, 32, 88>>, <<60, 47>>, <<42>>}

RECURSIVE Concat(_)
Concat(ps) == IF ps = <<>> THEN <<>> ELSE Head(ps) \o Concat(Tail(ps))

PromptInputs == {Concat(ps) : ps \in SeqsUpTo(Pieces, MaxPieces)}

InitPrompt ==
    /\ args = <<>>
    /\ isTerminal = FALSE
    /\ env = [n \in EnvNames |-> Undefined]
    /\ pc = "call createPrompt"
    /\ textStream = NoStream
    /\ stdin = NoStdin
    /\ values = NoValues
    /\ positionals = <<>>
    /\ filePath = Undefined
    /\ input \in PromptInputs
    /\ prompt = <<>>
    /\ apiKey = Undefined
    /\ result = NoResult
    /\ calls = <<>>
    /\ failed = <<>>
    /\ reads = <<>>
    /\ requests = <<>>
    /\ stdout = <<>>
    /\ stderr = <<>>
    /\ pulled = <<>>
    /\ written = <<>>
    /\ writes = <<>>
    /\ exitCode = Running

\* const result = createPrompt(input)
CallCreatePrompt ==
    /\ pc = "call createPrompt"
    /\ calls' = Append(calls, "createPrompt")
    /\ prompt' = createPrompt(input)
    /\ pc' = "called createPrompt"
    /\ UNCHANGED <<inputVars, failed, values, positionals, filePath, input,
                   apiKey, result, reads, requests, stdout, stderr, streamVars,
                   exitCode, textStream, stdin>>

NextPrompt == CallCreatePrompt

SpecPrompt == InitPrompt /\ [][NextPrompt]_vars

\* ------------------------------------------------------------------------
\* Properties of createPrompt
\* ------------------------------------------------------------------------

Count(whole, part) == Cardinality(Occurrences(whole, part))

Min(S) == CHOOSE x \in S : \A y \in S : x <= y

\* the text a reader finds between the first line that is the opening
\* marker and the closing marker's line
Embedded(doc) ==
    LET from == Min(Occurrences(doc, OpenMarker \o NewLine)) + Len(OpenMarker) + 1
        to == Min(Occurrences(doc, NewLine \o CloseMarker)) - 1
    IN SubSeq(doc, from, to)

\* C10 as the specification states it: for s without the closing marker,
\* createPrompt(s) holds s exactly once, between the only opening marker
\* and the only closing marker.
C10_Original ==
    (pc = "called createPrompt" /\ ~Includes(input, CloseMarker)) =>
        /\ Count(prompt, input) = 1
        /\ Count(prompt, OpenMarker) = 1
        /\ Count(prompt, CloseMarker) = 1
        /\ Occurrences(prompt, OpenMarker \o NewLine \o input \o NewLine \o CloseMarker) # {}

\* C10, amended: for s without the closing marker, createPrompt(s) holds the
\* closing marker exactly once, as its last characters; s stands verbatim
\* between the first line that is the opening marker and the closing
\* marker's line; and the opening marker occurs twice besides its
\* occurrences in s (once in the instructions' first line, once as s's
\* bracket), so neither it nor s need be unique in the document.
C10_Bracketed ==
    (pc = "called createPrompt" /\ ~Includes(input, CloseMarker)) =>
        /\ Occurrences(prompt, CloseMarker) = {Len(prompt) - Len(CloseMarker) + 1}
        /\ Occurrences(prompt, OpenMarker \o NewLine) # {}
        /\ Embedded(prompt) = input
        /\ Count(prompt, OpenMarker) = 2 + Count(input, OpenMarker)

\* a text that itself holds the opening marker and a newline was embedded
C10_Witness ==
    /\ pc = "called createPrompt"
    /\ input = OpenMarker \o NewLine
    /\ Embedded(prompt) = input
    /\ Count(prompt, OpenMarker) = 3

\* ------------------------------------------------------------------------
\* Properties of main and of the entry point
\* ------------------------------------------------------------------------

\* the steps of main in the order it takes them
StepOrder ==
    <<"parseArguments", "parsePositionals", "getInput", "createPrompt",
      "getApiKey", "requestLlm", "writeStreamText">>

IsPrefix(s, t) == Len(s) <= Len(t) /\ \A i \in 1..Len(s) : s[i] = t[i]

Called(step) == \E i \in 1..Len(calls) : calls[i] = step

MessagesOf(step) ==
    CASE step = "parseArguments" -> {ParseErrorMsg}
      [] step = "parsePositionals" -> {TooManyMsg}
      [] step = "getInput" -> {FileErrorMsg, StdinErrorMsg}
      [] step = "getApiKey" -> {KeyNotFoundMsg}
      [] step = "writeStreamText" -> {StreamErrorMsg}
      [] OTHER -> {}

Ended == pc \in {"returned", "exited"}

\* C3: main short-circuits.  The steps start in the order parse, validate,
\* read, build, key, request, stream; a step that returns a failure is the
\* last step ever started, main's result is that failure, and what later
\* steps would do has not been done: nothing read after a parse or
\* validation failure, no request and no write after any failure before the
\* stream.
C3_ShortCircuit ==
    /\ IsPrefix(calls, StepOrder)
    /\ Len(failed) <= 1
    /\ (Called("parsePositionals") /\ Len(positionals) > 1) => failed = <<"parsePositionals">>
    /\ (reads # <<>> /\ ~reads[1].ok) => failed = <<"getInput">>
    /\ (Called("getApiKey") /\ apiKey = Undefined) => failed = <<"getApiKey">>
    /\ (\E k \in 1..Len(writes) : writes[k].fate = "throw") => failed = <<"writeStreamText">>
    /\ failed # <<>> =>
          /\ calls[Len(calls)] = failed[1]
          /\ Ended
          /\ ~result.ok
          /\ result.message \in MessagesOf(failed[1])
          /\ failed[1] \in {"parseArguments", "parsePositionals"} => reads = <<>>
          /\ failed[1] # "writeStreamText" =>
                requests = <<>> /\ pulled = <<>> /\ written = <<>>

\* the credential was missing: input was read, no request was made
C3_Witness ==
    /\ pc = "exited"
    /\ failed = <<"getApiKey">>
    /\ Len(reads) = 1
    /\ requests = <<>>
    /\ exitCode.code = 1

\* the three sources in the order explicit, primary, secondary
KeySources ==
    <<values["api-key"], env["SQUASH_MESSAGE_API_KEY"], env["ANTHROPIC_API_KEY"]>>

\* getApiKey's outcome is the claimed one when the sources in present are
\* the ones that are not absent
FirstWins(present) ==
    IF present = <<>>
    THEN failed = <<"getApiKey">> /\ result.message = KeyNotFoundMsg
    ELSE failed = <<>> /\ apiKey = present[1]

\* C4: getApiKey returns Ok of the first source that is not absent, in the
\* order explicit, primary variable, secondary variable, and the Err "API
\* key not found" exactly when all three are absent; a source is absent
\* when it is not set, or, on the reading kinder to the code, when it is
\* not set or empty.
C4_FirstPresentWins ==
    Called("getApiKey") =>
        \/ FirstWins(SelectSeq(KeySources, LAMBDA k : k # Undefined))
        \/ FirstWins(SelectSeq(KeySources, LAMBDA k : k # Undefined /\ k # ""))

ZeroOrOne == <<"0", "or", "1">>

\* C5: parsePositionals returns Ok(undefined) for no positional, Ok of the
\* one string for one positional, and for two or more an Err whose message
\* says "0 or 1"; it reads and prints nothing.
C5_ParsePositionals ==
    Called("parsePositionals") =>
        /\ Len(positionals) = 0 => (filePath = Undefined /\ failed # <<"parsePositionals">>)
        /\ Len(positionals) = 1 => (filePath = positionals[1] /\ failed # <<"parsePositionals">>)
        /\ Len(positionals) >= 2 =>
              /\ failed = <<"parsePositionals">>
              /\ ~result.ok
              /\ Includes(result.message, ZeroOrOne)
        /\ (calls[Len(calls)] = "parsePositionals" /\ pc # "exited") =>
              reads = <<>> /\ stdout = <<>> /\ stderr = <<>>

\* the one positional, an empty string, came back unchanged
C5_Witness ==
    /\ pc = "getInput"
    /\ positionals = <<"">>
    /\ filePath = ""

\* C6: with the dry-run flag set and the input read, getApiKey is never
\* called, no request is made and nothing is written; when main ends it is
\* a success with the prompt printed once, and the process exits with 0.
C6_DryRun ==
    (values["dry-run"] /\ reads # <<>> /\ reads[1].ok) =>
        /\ ~Called("getApiKey")
        /\ requests = <<>>
        /\ pulled = <<>> /\ written = <<>>
        /\ failed = <<>>
        /\ Len(stdout) <= 1
        /\ Ended =>
              /\ result.ok
              /\ stdout = <<[kind |-> "prompt", text |-> createPrompt(Trim(input))]>>
        /\ pc = "exited" => exitCode = [code |-> 0, by |-> "match"]

\* a dry run on a file holding "feat: add X", with no key anywhere, exited
\* with 0 and printed a prompt holding the text and both markers
C6_Witness ==
    /\ pc = "exited"
    /\ exitCode.code = 0
    /\ values["dry-run"]
    /\ values["api-key"] = Undefined
    /\ \A n \in EnvNames : env[n] = Undefined
    /\ input = TextFeat
    /\ Len(stdout) = 1
    /\ stdout[1].kind = "prompt"
    /\ Includes(stdout[1].text, OpenMarker)
    /\ Includes(stdout[1].text, CloseMarker)
    /\ Includes(stdout[1].text, Trim(TextFeat))

HelpGiven == \E i \in 1..Len(args) : args[i] \in HelpTokens

\* C7: when the arguments parse and the help flag is given, or there is no
\* positional and standard input is a terminal, nothing but the parse is
\* ever called, nothing is read, requested or written, main ends in success
\* with the help text printed, and the process exits with 0.
C7_Help ==
    (/\ Called("parseArguments")
     /\ failed # <<"parseArguments">>
     /\ HelpGiven \/ (Len(positionals) = 0 /\ isTerminal)) =>
        /\ calls = <<"parseArguments">>
        /\ reads = <<>>
        /\ requests = <<>>
        /\ pulled = <<>> /\ written = <<>>
        /\ failed = <<>>
        /\ Ended =>
              /\ result.ok
              /\ stdout = <<[kind |-> "help", text |-> <<>>]>>
        /\ pc = "exited" =>
              exitCode = [code |-> 0, by |-> "match"] /\ stderr = <<>>

\* no positional on a terminal, without the help flag: help was printed
C7_Witness ==
    /\ pc = "exited"
    /\ ~HelpGiven
    /\ isTerminal
    /\ args = <<"--api-key", "sk-cli">>
    /\ stdout = <<[kind |-> "help", text |-> <<>>]>>
    /\ exitCode.code = 0

\* C8: an invocation that ends, ends by the entry point's match: with 0
\* exactly when main's result is a success, and with 1 and one "Error:"
\* message exactly when a step returned a failure.
C8_ExitOutcome ==
    pc = "exited" =>
        /\ exitCode.by = "match"
        /\ exitCode.code \in {0, 1}
        /\ exitCode.code = 0 <=> result.ok
        /\ exitCode.code = 1 <=> failed # <<>>
        /\ exitCode.code = 0 => stderr = <<>>
        /\ exitCode.code = 1 => stderr = <<<<"Error:">> \o result.message>>

\* the positionals of a command line: the tokens that are neither options
\* nor the value of --api-key
PositionalsGiven ==
    {i \in 1..Len(args) :
        /\ args[i] \notin OptionLike
        /\ ~(i > 1 /\ args[i - 1] \in ApiKeyTokens)}

\* C9 as the specification states it: two or more positionals on the
\* command line end the invocation with 1 and a message saying "0 or 1",
\* whatever the other flags.
C9_Original ==
    (pc = "exited" /\ Cardinality(PositionalsGiven) >= 2) =>
        /\ exitCode.code = 1
        /\ stderr # <<>>
        /\ Includes(stderr[1], ZeroOrOne)

\* C9, amended: two or more positionals on a command line that parses and
\* does not give the help flag end the invocation with 1 and the message
\* saying "0 or 1", whatever the dry-run and api-key flags.
C9_TooMany ==
    (/\ pc = "exited"
     /\ Cardinality(PositionalsGiven) >= 2
     /\ failed # <<"parseArguments">>
     /\ ~HelpGiven) =>
        /\ exitCode = [code |-> 1, by |-> "match"]
        /\ stderr = <<<<"Error:">> \o TooManyMsg>>
        /\ Includes(stderr[1], ZeroOrOne)

\* two positionals after --dry-run: exit 1
C9_Witness ==
    /\ pc = "exited"
    /\ args = <<"--dry-run", "a.txt", "sk-cli">>
    /\ exitCode.code = 1
    /\ stderr = <<<<"Error:">> \o TooManyMsg>>

\* ------------------------------------------------------------------------
\* readFromStdin called on its own, as its test calls it: on any byte
\* stream, cut into chunks anywhere
\* ------------------------------------------------------------------------

\* the byte streams: nothing; "a"; an accented "e" (two bytes); "a" and the
\* accented "e"; the euro sign (three bytes); the accented "e" and the euro
\* sign; "a", a byte order mark, "b"; a byte that is no UTF-8; a two-byte
\* sequence cut short
ByteStreams ==
    {<<>>, <<97>>, <<195, 169>>, <<97, 195, 169>>, <<226, 130, 172>>,
     <<195, 169, 226, 130, 172>>, <<97, 239, 187, 191, 98>>, <<255>>, <<195>>}

\* bytes cut into chunks after the positions in cuts
RECURSIVE ChunksAt(_, _, _)
ChunksAt(bytes, cuts, from) ==
    IF from > Len(bytes) THEN <<>>
    ELSE LET later == {c \in cuts : c >= from}
             to == IF later = {} THEN Len(bytes)
                   ELSE CHOOSE c \in later : \A d \in later : c <= d
         IN <<SubSeq(bytes, from, to)>> \o ChunksAt(bytes, cuts, to + 1)

\* every way of delivering bytes in chunks, with at most MaxCuts cuts
Chunkings(bytes) ==
    {ChunksAt(bytes, cuts, 1) :
        cuts \in {c \in SUBSET (1..(Len(bytes) - 1)) : Cardinality(c) <= MaxCuts}}

InitStdin ==
    /\ args = <<>>
    /\ isTerminal = FALSE
    /\ env = [n \in EnvNames |-> Undefined]
    /\ pc = "call readFromStdin"
    /\ textStream = NoStream
    /\ \E bytes \in ByteStreams, broken \in BOOLEAN :
          \E chunks \in Chunkings(bytes) :
              stdin = [chunks |-> chunks, broken |-> broken]
    /\ InitLocals

\* const result = await readFromStdin()
CallReadFromStdin ==
    /\ pc = "call readFromStdin"
    /\ calls' = Append(calls, "readFromStdin")
    /\ reads' = Append(reads, [source |-> "stdin", path |-> Undefined,
                               ok |-> readFromStdin(stdin.chunks, stdin.broken).ok])
    /\ result' = readFromStdin(stdin.chunks, stdin.broken)
    /\ pc' = "called readFromStdin"
    /\ UNCHANGED <<inputVars, failed, values, positionals, filePath, input,
                   prompt, apiKey, requests, stdout, stderr, streamVars,
                   exitCode, textStream, stdin>>

NextStdin == CallReadFromStdin

SpecStdin == InitStdin /\ [][NextStdin]_vars

\* ------------------------------------------------------------------------
\* Properties of readFromStdin
\* ------------------------------------------------------------------------

\* U+FFFD, what a decoder that is not fatal puts in place of malformed bytes
ReplacementChar == 65533

\* C11: readFromStdin returns the whole text of standard input.  However
\* the bytes are cut into chunks, the result is Ok of the decoding of all
\* the bytes together when they are well-formed and the read does not fail;
\* it is an Err, "Failed to read from stdin", only when the bytes as a whole
\* are malformed or the read fails; and an Ok text holds no replacement
\* character.
C11_WholeText ==
    pc = "called readFromStdin" =>
        LET whole == decode(Concat(stdin.chunks)) IN
        /\ (~whole.threw /\ ~stdin.broken) =>
              (result.ok /\ result.value = whole.text)
        /\ ~result.ok =>
              /\ result.message = StdinErrorMsg
              /\ whole.threw \/ stdin.broken
        /\ result.ok =>
              \A i \in 1..Len(result.value) : result.value[i] # ReplacementChar

\* ------------------------------------------------------------------------
\* Properties of the input source and of the asynchronous sink
\* ------------------------------------------------------------------------

\* C12: the source read follows the validated positional.  Exactly one
\* source is read, once; with one positional p, whatever string it is, it
\* is the file named p and standard input is not read; with no positional
\* it is standard input and no file.
C12_SourceFollowsPositional ==
    /\ Len(reads) <= 1
    /\ Called("getInput") => Len(reads) = 1
    /\ reads # <<>> =>
          /\ Len(positionals) = 1 =>
                /\ reads[1].source = "file"
                /\ reads[1].path = positionals[1]
                /\ stdin = NoStdin
          /\ Len(positionals) = 0 =>
                /\ reads[1].source = "stdin"
                /\ reads[1].path = Undefined

\* C13: success is reported (writeStreamText and main return Ok, the
\* process exits with 0) only when the stream is exhausted and every write
\* issued has been fulfilled: never while a write is pending or has failed.
C13_SuccessAfterWrites ==
    (/\ Called("writeStreamText")
     /\ Ended
     /\ result.ok \/ exitCode.code = 0) =>
        /\ Len(pulled) = Len(textStream.chunks)
        /\ \A i \in 1..Len(writes) :
              writes[i].settled /\ writes[i].fate = "fulfil"

====
